---- MODULE Spec2Model ----
(***************************************************************************)
(* Model of src/HandwritingEngine.py: NormalizedHandwritingEngine.         *)
(*   process_letter_contour : the glyph normalizer (class-based height,    *)
(*                            aspect-preserving resize, baseline placing)  *)
(*   generate               : the page composer (split, measure, wrap,     *)
(*                            draw, end of word, end of line, save)        *)
(* Python's int(x * 0.65) on a float is modelled by exact integer          *)
(* arithmetic, (x * 65) \div 100; for std_size = 50 and for the sample     *)
(* sizes of InkBoxes the double-precision results are the same numbers.    *)
(***************************************************************************)
EXTENDS Integers, Sequences, FiniteSets, TLC

\* ------------------------------------------------------------ bounds

\* Longest input text, in characters (separators included).
MaxLen == 4

\* ------------------------------------------------- engine configuration

std_size == 50
line_height == 65
char_spacing == 2
roi_padding == 10
start_x == 200
max_x == 2200
curr_y0 == 200

pixels_per_space == (std_size * 4) \div 10
fallback_width == (std_size * 5) \div 10

\* ------------------------------------------------------- characters

LowerCaseLetters ==
    << "a", "b", "c", "d", "e", "f", "g", "h", "i", "j", "k", "l", "m",
       "n", "o", "p", "q", "r", "s", "t", "u", "v", "w", "x", "y", "z" >>

UpperCaseLetters ==
    << "A", "B", "C", "D", "E", "F", "G", "H", "I", "J", "K", "L", "M",
       "N", "O", "P", "Q", "R", "S", "T", "U", "V", "W", "X", "Y", "Z" >>

\* str.lower() on one character.
Lower(c) ==
    IF \E i \in 1..26 : UpperCaseLetters[i] = c
    THEN LowerCaseLetters[CHOOSE i \in 1..26 : UpperCaseLetters[i] = c]
    ELSE c

\* The grave accent: the module's lexer reads a grave accent inside a string
\* as the start of a quotation, so the character is named, not written.
Backtick == "GRAVE ACCENT"

small_punct == { ".", ",", "'", "\"", Backtick, "-" }
tall_letters == { "f", "t", "b", "d", "h", "k", "l" }
descenders == { "g", "j", "p", "q", "y" }
short_letters == { "a", "c", "e", "i", "m", "n", "o", "r", "s", "u", "v",
                   "w", "x", "z" }

\* SPECIAL_CHAR_MAP.get(char, char.lower())
FolderName(c) ==
    CASE c = "." -> "dot"
      [] c = "\"" -> "quote"
      [] c = ":" -> "colon"
      [] c = "?" -> "question"
      [] c = "*" -> "asterisk"
      [] c = "/" -> "slash"
      [] c = "\\" -> "backslash"
      [] c = "<" -> "lt"
      [] c = ">" -> "gt"
      [] c = "|" -> "pipe"
      [] c = "," -> "comma"
      [] c = "'" -> "apostrophe"
      [] OTHER -> Lower(c)

\* ------------------------------------------------------ sample store

\* Ink bounding boxes (w, h) of the stored samples, as cv2.boundingRect
\* reports them: a dot, a long horizontal stroke, a thin vertical stroke.
InkBoxes == { <<1, 1>>, <<1280, 1>>, <<2, 200>> }

\* What one look-up of a character's folder can find: no folder, a folder
\* without image variants, or the variant random.choice picks, which cv2
\* cannot read, or which holds no ink, or which holds ink in a bounding box.
Lookups ==
    { [dir |-> "missing", file |-> "-", bw |-> 0, bh |-> 0],
      [dir |-> "novariants", file |-> "-", bw |-> 0, bh |-> 0],
      [dir |-> "variants", file |-> "unreadable", bw |-> 0, bh |-> 0],
      [dir |-> "variants", file |-> "nocontours", bw |-> 0, bh |-> 0] }
    \cup { [dir |-> "variants", file |-> "ink", bw |-> b[1], bh |-> b[2]] :
             b \in InkBoxes }

NoLookup == [dir |-> "-", file |-> "-", bw |-> 0, bh |-> 0]

\* ----------------------------------------------- process_letter_contour

safe_zone == std_size - 4

baseline_y == (std_size * 70) \div 100

\* TargetHeight without "s" among the short letters, as the code once was.
TargetHeight_ShortWithoutS(char_ref) ==
    LET char_type == Lower(char_ref) IN
    IF char_type \in small_punct THEN (safe_zone * 20) \div 100
    ELSE IF char_type \in tall_letters THEN (safe_zone * 65) \div 100
    ELSE IF char_type \in descenders THEN (safe_zone * 65) \div 100
    ELSE IF char_type \in short_letters \ { "s" } THEN (safe_zone * 35) \div 100
    ELSE (safe_zone * 60) \div 100

\* TargetHeight with the tall letters' ratio mistyped, 6.5 for 0.65.
TargetHeight_TallRatioTypo(char_ref) ==
    LET char_type == Lower(char_ref) IN
    IF char_type \in small_punct THEN (safe_zone * 20) \div 100
    ELSE IF char_type \in tall_letters THEN (safe_zone * 65) \div 10
    ELSE IF char_type \in descenders THEN (safe_zone * 65) \div 100
    ELSE IF char_type \in short_letters THEN (safe_zone * 35) \div 100
    ELSE (safe_zone * 60) \div 100

\* new_h = target_height, by character class.
TargetHeight(char_ref) ==
    LET char_type == Lower(char_ref) IN
    IF char_type \in small_punct THEN (safe_zone * 20) \div 100
    ELSE IF char_type \in tall_letters THEN (safe_zone * 65) \div 100
    ELSE IF char_type \in descenders THEN (safe_zone * 65) \div 100
    ELSE IF char_type \in short_letters THEN (safe_zone * 35) \div 100
    ELSE (safe_zone * 60) \div 100

\* The padded crop's shape: the bounding box plus roi_padding on each side.
PaddedW(bw) == bw + 2 * roi_padding
PaddedH(bh) == bh + 2 * roi_padding

\* aspect = w / h; new_w = int(new_h * aspect)
ResizedW(new_h, w, h) == (new_h * w) \div h

NewW(char_ref, bw, bh) ==
    ResizedW(TargetHeight(char_ref), PaddedW(bw), PaddedH(bh))

\* PlacedY without the descenders' branch: they sit on the baseline.
PlacedY_DescenderOnBaseline(char_ref) ==
    LET char_type == Lower(char_ref)
        new_h == TargetHeight(char_ref)
        start_y ==
            IF char_type \in { ".", "," } THEN baseline_y - new_h
            ELSE IF char_type \in { "'", "\"", Backtick }
                 THEN (std_size * 15) \div 100
            ELSE baseline_y - new_h
        clamp0 == IF start_y < 0 THEN 0 ELSE start_y
    IN  IF clamp0 + new_h > std_size THEN std_size - new_h ELSE clamp0

\* start_y, after the clamp.
PlacedY(char_ref) ==
    LET char_type == Lower(char_ref)
        new_h == TargetHeight(char_ref)
        start_y ==
            IF char_type \in { ".", "," } THEN baseline_y - new_h
            ELSE IF char_type \in { "'", "\"", Backtick }
                 THEN (std_size * 15) \div 100
            ELSE IF char_type \in descenders
                 THEN LET short_letter_height == (safe_zone * 35) \div 100
                          x_height_top == baseline_y - short_letter_height
                      IN  x_height_top
            ELSE baseline_y - new_h
        clamp0 == IF start_y < 0 THEN 0 ELSE start_y
    IN  IF clamp0 + new_h > std_size THEN std_size - new_h ELSE clamp0

NoGlyph == [kind |-> "None", width |-> 0, height |-> 0, top |-> 0, ink_h |-> 0]

Raised == [kind |-> "raise", width |-> 0, height |-> 0, top |-> 0, ink_h |-> 0]

\* The whole call: None for an unreadable image or one without contours,
\* cv2.error out of cv2.resize for a target width of 0, else the RGBA glyph
\* of height std_size and width new_w.
ProcessLetterContour(look, char_ref) ==
    IF look.file # "ink" THEN NoGlyph
    ELSE IF NewW(char_ref, look.bw, look.bh) <= 0 THEN Raised
    ELSE [kind |-> "glyph",
          width |-> NewW(char_ref, look.bw, look.bh),
          height |-> std_size,
          top |-> PlacedY(char_ref),
          ink_h |-> TargetHeight(char_ref)]

\* ------------------------------------------------------------- text

\* str.split(sep) with an explicit separator: never an empty list.
RECURSIVE Split(_, _)
Split(s, sep) ==
    IF s = << >> THEN << << >> >>
    ELSE LET rest == Split(Tail(s), sep) IN
         IF Head(s) = sep THEN << << >> >> \o rest
         ELSE << <<Head(s)>> \o rest[1] >> \o Tail(rest)

RECURSIVE SeqsUpTo(_, _)
SeqsUpTo(S, n) ==
    IF n = 0 THEN { << >> }
    ELSE LET shorter == SeqsUpTo(S, n - 1) IN
         shorter \cup { Append(s, c) : s \in { t \in shorter : Len(t) = n - 1 },
                                       c \in S }

\* The characters of the composed texts: a short letter, a quote mark, the
\* two separators.
TextChars == { "a", "'", " ", "\n" }

Texts == SeqsUpTo(TextChars, MaxLen)

\* The characters handed to the normalizer on its own.
GlyphChars ==
    { LowerCaseLetters[i] : i \in 1..26 } \cup { UpperCaseLetters[i] : i \in 1..26 }
    \cup small_punct \cup { ":", "?", "*", "/", "\\", "<", ">", "|", "1", "!" }


\* ------------------------------------------------------------ state

VARIABLES
    \* generate()
    text,               \* the input, a sequence of characters
    pc,                 \* where generate() stands
    li, wi, ci, di,     \* line, word, character and item being handled
    curr_x, curr_y,     \* the layout cursor
    word_items,         \* (img, width) of the word being laid out
    word_total_width,
    canvas,             \* the pastes made, in the order made
    saved,              \* what the saving step wrote
    \* observations of the run, read by the properties only
    last_lookup,        \* what the latest character's look-up found
    reached_x, reached_y, \* the cursor when the current word's wrap check ran
    line_y,             \* curr_y when the current line began
    placed_widths,      \* total widths of the words placed on the current line
    \* process_letter_contour() run on its own
    g_pc, g_char, g_look, g_w, g_h, g_new_h, g_new_w, g_start_y, g_result

gen_vars == << text, pc, li, wi, ci, di, curr_x, curr_y, word_items,
               word_total_width, canvas, saved, last_lookup, reached_x,
               reached_y, line_y, placed_widths >>

glyph_vars == << g_pc, g_char, g_look, g_w, g_h, g_new_h, g_new_w, g_start_y,
                 g_result >>

vars == << gen_vars, glyph_vars >>

lines == Split(text, "\n")
words == Split(lines[li], " ")
word == words[wi]

GlyphIdle ==
    /\ g_pc = "idle"
    /\ g_char = "-"
    /\ g_look = NoLookup
    /\ g_w = 0
    /\ g_h = 0
    /\ g_new_h = 0
    /\ g_new_w = 0
    /\ g_start_y = 0
    /\ g_result = NoGlyph

GenIdle ==
    /\ text = << >>
    /\ pc = "idle"
    /\ li = 1
    /\ wi = 1
    /\ ci = 0
    /\ di = 0
    /\ curr_x = start_x
    /\ curr_y = curr_y0
    /\ word_items = << >>
    /\ word_total_width = 0
    /\ canvas = << >>
    /\ saved = "-"
    /\ last_lookup = NoLookup
    /\ reached_x = start_x
    /\ reached_y = curr_y0
    /\ line_y = curr_y0
    /\ placed_widths = << >>

\* ------------------------------------------------------- generate()

\* generate(text) entered: the canvas is blank, the cursor at the top left
\* margin, the first word of the first line about to be measured.
Init ==
    /\ text \in Texts
    /\ pc = "measure"
    /\ li = 1
    /\ wi = 1
    /\ ci = 0
    /\ di = 0
    /\ curr_x = start_x
    /\ curr_y = curr_y0
    /\ word_items = << >>
    /\ word_total_width = 0
    /\ canvas = << >>
    /\ saved = "-"
    /\ last_lookup = NoLookup
    /\ reached_x = start_x
    /\ reached_y = curr_y0
    /\ line_y = curr_y0
    /\ placed_widths = << >>
    /\ GlyphIdle

\* FallbackItem given the inter-character spacing a glyph's item gets.
FallbackItem_WithCharSpacing ==
    [img |-> NoGlyph, width |-> fallback_width + char_spacing]

\* The blank placeholder, (None, fallback_width).
FallbackItem == [img |-> NoGlyph, width |-> fallback_width]

\* One turn of "for char in word": the folder look-up, the normalizer's
\* call, and the item appended to word_items.
MeasureChar ==
    /\ pc = "measure"
    /\ ci < Len(word)
    /\ \E look \in Lookups :
         LET char == word[ci + 1]
             img == IF look.dir = "variants"
                    THEN ProcessLetterContour(look, char)
                    ELSE NoGlyph
         IN  /\ last_lookup' = look
             /\ IF img.kind = "raise"
                THEN /\ pc' = "raised"
                     /\ UNCHANGED << ci, word_items, word_total_width >>
                ELSE IF img.kind = "glyph"
                THEN LET width == img.width + char_spacing IN
                     /\ word_items' = Append(word_items, [img |-> img, width |-> width])
                     /\ word_total_width' = word_total_width + width
                     /\ ci' = ci + 1
                     /\ pc' = pc
                ELSE /\ word_items' = Append(word_items, FallbackItem)
                     /\ word_total_width' = word_total_width + FallbackItem.width
                     /\ ci' = ci + 1
                     /\ pc' = pc
    /\ UNCHANGED << text, li, wi, di, curr_x, curr_y, canvas, saved, reached_x,
                    reached_y, line_y, placed_widths >>
    /\ UNCHANGED glyph_vars

\* PlaceWord testing the cursor alone, without the word's width.
PlaceWord_IgnoresWordWidth ==
    /\ pc = "measure"
    /\ ci = Len(word)
    /\ IF curr_x > max_x
       THEN /\ curr_x' = start_x
            /\ curr_y' = curr_y + line_height
       ELSE UNCHANGED << curr_x, curr_y >>
    /\ reached_x' = curr_x
    /\ reached_y' = curr_y
    /\ placed_widths' = Append(placed_widths, word_total_width)
    /\ di' = 0
    /\ pc' = "draw"
    /\ UNCHANGED << text, li, wi, ci, word_items, word_total_width, canvas,
                    saved, last_lookup, line_y >>
    /\ UNCHANGED glyph_vars

\* PlaceWord testing against the usable width, max_x - start_x, not max_x.
PlaceWord_AgainstUsableWidth ==
    /\ pc = "measure"
    /\ ci = Len(word)
    /\ IF curr_x + word_total_width > max_x - start_x
       THEN /\ curr_x' = start_x
            /\ curr_y' = curr_y + line_height
       ELSE UNCHANGED << curr_x, curr_y >>
    /\ reached_x' = curr_x
    /\ reached_y' = curr_y
    /\ placed_widths' = Append(placed_widths, word_total_width)
    /\ di' = 0
    /\ pc' = "draw"
    /\ UNCHANGED << text, li, wi, ci, word_items, word_total_width, canvas,
                    saved, last_lookup, line_y >>
    /\ UNCHANGED glyph_vars

\* PlaceWord moving one line down without going back to the left margin.
PlaceWord_KeepsX ==
    /\ pc = "measure"
    /\ ci = Len(word)
    /\ IF curr_x + word_total_width > max_x
       THEN /\ curr_x' = curr_x
            /\ curr_y' = curr_y + line_height
       ELSE UNCHANGED << curr_x, curr_y >>
    /\ reached_x' = curr_x
    /\ reached_y' = curr_y
    /\ placed_widths' = Append(placed_widths, word_total_width)
    /\ di' = 0
    /\ pc' = "draw"
    /\ UNCHANGED << text, li, wi, ci, word_items, word_total_width, canvas,
                    saved, last_lookup, line_y >>
    /\ UNCHANGED glyph_vars

\* "Check if word fits on line": the wrap decision, once the word is measured.
PlaceWord ==
    /\ pc = "measure"
    /\ ci = Len(word)
    /\ IF curr_x + word_total_width > max_x
       THEN /\ curr_x' = start_x
            /\ curr_y' = curr_y + line_height
       ELSE UNCHANGED << curr_x, curr_y >>
    /\ reached_x' = curr_x
    /\ reached_y' = curr_y
    /\ placed_widths' = Append(placed_widths, word_total_width)
    /\ di' = 0
    /\ pc' = "draw"
    /\ UNCHANGED << text, li, wi, ci, word_items, word_total_width, canvas,
                    saved, last_lookup, line_y >>
    /\ UNCHANGED glyph_vars

\* DrawItem moving the cursor only past a blank placeholder.
DrawItem_AdvancesOnlyPastBlanks ==
    /\ pc = "draw"
    /\ di < Len(word_items)
    /\ LET item == word_items[di + 1] IN
       /\ canvas' = IF item.img.kind # "None"
                    THEN Append(canvas, [x |-> curr_x, y |-> curr_y,
                                         img_w |-> item.img.width,
                                         line |-> li, word |-> wi, char |-> di + 1])
                    ELSE canvas
       /\ curr_x' = IF item.img.kind # "None" THEN curr_x ELSE curr_x + item.width
    /\ di' = di + 1
    /\ UNCHANGED << text, pc, li, wi, ci, curr_y, word_items, word_total_width,
                    saved, last_lookup, reached_x, reached_y, line_y,
                    placed_widths >>
    /\ UNCHANGED glyph_vars

\* One turn of "for item in word_items": paste if there is an image, and
\* move the cursor in every case.
DrawItem ==
    /\ pc = "draw"
    /\ di < Len(word_items)
    /\ LET item == word_items[di + 1] IN
       /\ canvas' = IF item.img.kind # "None"
                    THEN Append(canvas, [x |-> curr_x, y |-> curr_y,
                                         img_w |-> item.img.width,
                                         line |-> li, word |-> wi, char |-> di + 1])
                    ELSE canvas
       /\ curr_x' = curr_x + item.width
    /\ di' = di + 1
    /\ UNCHANGED << text, pc, li, wi, ci, curr_y, word_items, word_total_width,
                    saved, last_lookup, reached_x, reached_y, line_y,
                    placed_widths >>
    /\ UNCHANGED glyph_vars

\* After the word's items: the inter-word space, then the next word of the
\* line, or the end of the line.
EndWord ==
    /\ pc = "draw"
    /\ di = Len(word_items)
    /\ curr_x' = curr_x + pixels_per_space
    /\ IF wi < Len(words)
       THEN /\ wi' = wi + 1
            /\ pc' = "measure"
       ELSE /\ wi' = wi
            /\ pc' = "eol"
    /\ ci' = 0
    /\ di' = 0
    /\ word_items' = << >>
    /\ word_total_width' = 0
    /\ UNCHANGED << text, li, curr_y, canvas, saved, last_lookup, reached_x,
                    reached_y, line_y, placed_widths >>
    /\ UNCHANGED glyph_vars

\* EndLine moving down only after a line that holds text.
EndLine_SkipsEmptyLine ==
    /\ pc = "eol"
    /\ curr_x' = start_x
    /\ curr_y' = IF lines[li] = << >> THEN curr_y ELSE curr_y + line_height
    /\ line_y' = curr_y'
    /\ placed_widths' = << >>
    /\ IF li < Len(lines)
       THEN /\ li' = li + 1
            /\ wi' = 1
            /\ pc' = "measure"
       ELSE /\ li' = li
            /\ wi' = wi
            /\ pc' = "save"
    /\ UNCHANGED << text, ci, di, word_items, word_total_width, canvas, saved,
                    last_lookup, reached_x, reached_y >>
    /\ UNCHANGED glyph_vars

\* After the line's words: back to the left margin, one line down, then the
\* next line, or the saving step.
EndLine ==
    /\ pc = "eol"
    /\ curr_x' = start_x
    /\ curr_y' = curr_y + line_height
    /\ line_y' = curr_y + line_height
    /\ placed_widths' = << >>
    /\ IF li < Len(lines)
       THEN /\ li' = li + 1
            /\ wi' = 1
            /\ pc' = "measure"
       ELSE /\ li' = li
            /\ wi' = wi
            /\ pc' = "save"
    /\ UNCHANGED << text, ci, di, word_items, word_total_width, canvas, saved,
                    last_lookup, reached_x, reached_y >>
    /\ UNCHANGED glyph_vars

\* The saving step: a Word document for an output_file ending in ".docx",
\* an image file otherwise.
Save ==
    /\ pc = "save"
    /\ \E output_file \in { "my_homework.docx", "normalized_notes.png" } :
         saved' = IF output_file = "my_homework.docx" THEN "docx" ELSE "image"
    /\ pc' = "done"
    /\ UNCHANGED << text, li, wi, ci, di, curr_x, curr_y, word_items,
                    word_total_width, canvas, last_lookup, reached_x, reached_y,
                    line_y, placed_widths >>
    /\ UNCHANGED glyph_vars

Next ==
    \/ MeasureChar
    \/ PlaceWord
    \/ DrawItem
    \/ EndWord
    \/ EndLine
    \/ Save

Spec == Init /\ [][Next]_vars


\* ------------------------------------- process_letter_contour(), stepwise

\* The call entered with one stored variant and one character.
InitGlyph ==
    /\ GenIdle
    /\ g_pc = "read"
    /\ g_char \in GlyphChars
    /\ g_look \in { l \in Lookups : l.dir = "variants" }
    /\ g_w = 0
    /\ g_h = 0
    /\ g_new_h = 0
    /\ g_new_w = 0
    /\ g_start_y = 0
    /\ g_result = NoGlyph

\* imread, threshold, contours, bounding box, crop and padding: None for an
\* unreadable image or one without contours, else the padded crop's shape.
ReadAndCrop ==
    /\ g_pc = "read"
    /\ IF g_look.file # "ink"
       THEN /\ g_result' = NoGlyph
            /\ g_pc' = "returned"
            /\ UNCHANGED << g_w, g_h >>
       ELSE /\ g_w' = PaddedW(g_look.bw)
            /\ g_h' = PaddedH(g_look.bh)
            /\ g_pc' = "resize"
            /\ UNCHANGED g_result
    /\ UNCHANGED << g_char, g_look, g_new_h, g_new_w, g_start_y >>
    /\ UNCHANGED gen_vars

\* The class's target height and the aspect-preserving width; cv2.resize
\* raises for a width of 0.
Resize ==
    /\ g_pc = "resize"
    /\ g_new_h' = TargetHeight(g_char)
    /\ g_new_w' = ResizedW(TargetHeight(g_char), g_w, g_h)
    /\ g_pc' = IF ResizedW(TargetHeight(g_char), g_w, g_h) <= 0
               THEN "raised" ELSE "position"
    /\ UNCHANGED << g_char, g_look, g_w, g_h, g_start_y, g_result >>
    /\ UNCHANGED gen_vars

\* The vertical offset, clamped, at which the resized glyph is written into
\* norm_canvas.
Position ==
    /\ g_pc = "position"
    /\ g_start_y' = PlacedY(g_char)
    /\ g_pc' = "ink"
    /\ UNCHANGED << g_char, g_look, g_w, g_h, g_new_h, g_new_w, g_result >>
    /\ UNCHANGED gen_vars

\* Dilation, threshold and the RGBA image returned.
InkAndReturn ==
    /\ g_pc = "ink"
    /\ g_result' = [kind |-> "glyph", width |-> g_new_w, height |-> std_size,
                    top |-> g_start_y, ink_h |-> g_new_h]
    /\ g_pc' = "returned"
    /\ UNCHANGED << g_char, g_look, g_w, g_h, g_new_h, g_new_w, g_start_y >>
    /\ UNCHANGED gen_vars

NextGlyph ==
    \/ ReadAndCrop
    \/ Resize
    \/ Position
    \/ InkAndReturn

SpecGlyph == InitGlyph /\ [][NextGlyph]_vars


\* ------------------------------------------------ properties: normalizer

\* The classes as the specification lists them, with their capitals: the
\* character is lower-cased before it is classified.
SpecSmallPunct == { ".", ",", "'", "\"", Backtick, "-" }
SpecTall == { "f", "t", "b", "d", "h", "k", "l", "F", "T", "B", "D", "H", "K", "L" }
SpecDescenders == { "g", "j", "p", "q", "y", "G", "J", "P", "Q", "Y" }
SpecShort == { "a", "c", "e", "i", "m", "n", "o", "r", "s", "u", "v", "w", "x", "z",
               "A", "C", "E", "I", "M", "N", "O", "R", "S", "U", "V", "W", "X", "Z" }

\* round(pct/100 * n) for n, pct >= 0, ties to even as Python's round().
RoundPct(pct, n) ==
    LET q == (pct * n) \div 100
        r == (pct * n) % 100
    IN  IF r > 50 \/ (r = 50 /\ q % 2 = 1) THEN q + 1 ELSE q

\* int(pct/100 * n) for n, pct >= 0.
TruncPct(pct, n) == (pct * n) \div 100

\* new_h and new_w are set.
GlyphResized ==
    \/ g_pc \in { "position", "ink", "raised" }
    \/ g_pc = "returned" /\ g_result.kind = "glyph"

\* start_y is set.
GlyphPlaced ==
    \/ g_pc = "ink"
    \/ g_pc = "returned" /\ g_result.kind = "glyph"

\* C3, as stated: the resized ink height is round(0.20 * (std_size - 4)) for
\* small punctuation, round(0.65 * (std_size - 4)) for tall letters and for
\* descenders, round(0.35 * (std_size - 4)) for short letters, std_size = 50.
C3_RoundedHeights ==
    GlyphResized =>
        /\ g_char \in SpecSmallPunct => g_new_h = RoundPct(20, 50 - 4)
        /\ g_char \in SpecTall => g_new_h = RoundPct(65, 50 - 4)
        /\ g_char \in SpecDescenders => g_new_h = RoundPct(65, 50 - 4)
        /\ g_char \in SpecShort => g_new_h = RoundPct(35, 50 - 4)

\* C3, amended: the resized ink height is the product truncated, not rounded:
\* int(0.20 * 46) = 9 for small punctuation, int(0.65 * 46) = 29 for tall
\* letters and for descenders, int(0.35 * 46) = 16 for short letters.
C3_TruncatedHeights ==
    GlyphResized =>
        /\ g_char \in SpecSmallPunct => g_new_h = TruncPct(20, 50 - 4) /\ g_new_h = 9
        /\ g_char \in SpecTall => g_new_h = TruncPct(65, 50 - 4) /\ g_new_h = 29
        /\ g_char \in SpecDescenders => g_new_h = TruncPct(65, 50 - 4) /\ g_new_h = 29
        /\ g_char \in SpecShort => g_new_h = TruncPct(35, 50 - 4) /\ g_new_h = 16

\* A capital tall letter resized to 29 rows, where rounding would give 30.
C3_Witness ==
    /\ g_pc = "position"
    /\ g_char = "F"
    /\ g_new_h = 29
    /\ RoundPct(65, 50 - 4) = 30

\* C4: for every character the offset at which the resized glyph is written
\* satisfies start_y >= 0 and start_y + new_h <= std_size.
C4_GlyphInsideCanvas ==
    GlyphPlaced => g_start_y >= 0 /\ g_start_y + g_new_h <= 50

\* A descender placed with its tail below the baseline, rows 19 to 48.
C4_Witness ==
    /\ g_pc = "ink"
    /\ g_char = "y"
    /\ g_start_y + g_new_h > (70 * 50) \div 100
    /\ g_start_y + g_new_h = 48

\* C5: every descender and every short character is placed with its top at
\* the same offset, baseline_y - int((std_size - 4) * 0.35), whatever the
\* sample's size.
C5_DescenderTopIsShortTop ==
    (GlyphPlaced /\ g_char \in SpecDescenders \cup SpecShort) =>
        g_start_y = (70 * 50) \div 100 - TruncPct(35, 50 - 4)

\* A descender from the thin tall sample, placed at the short letters' top.
C5_Witness ==
    /\ g_pc = "returned"
    /\ g_result.kind = "glyph"
    /\ g_char = "Q"
    /\ g_look.bh = 200
    /\ g_start_y = 19


\* -------------------------------------------------- properties: composer

RECURSIVE SumWidths(_, _)
\* The widths of the first n items of a word.
SumWidths(items, n) ==
    IF n = 0 THEN 0 ELSE SumWidths(items, n - 1) + items[n].width

\* The pastes made for the word being laid out.
PastesOfWord == { k \in DOMAIN canvas : canvas[k].line = li /\ canvas[k].word = wi }

\* C1: a word wider than max_x - curr_x when it is reached is drawn only
\* after curr_x went back to start_x and curr_y one line down, and all the
\* items of one word are pasted with the same curr_y.
C1_WordWrapsWhole ==
    /\ (pc = "draw" /\ word_total_width > 2200 - reached_x) =>
          /\ curr_y = reached_y + 65
          /\ curr_x = 200 + SumWidths(word_items, di)
          /\ \A k \in PastesOfWord :
                /\ canvas[k].y = reached_y + 65
                /\ canvas[k].x = 200 + SumWidths(word_items, canvas[k].char - 1)
    /\ \A j, k \in DOMAIN canvas :
          (canvas[j].line = canvas[k].line /\ canvas[j].word = canvas[k].word)
              => canvas[j].y = canvas[k].y

\* A second word of two glyphs that did not fit behind the first, drawn
\* whole on the next line.
C1_Witness ==
    /\ pc = "draw"
    /\ di = 2
    /\ Len(word_items) = 2
    /\ reached_x > 200
    /\ word_total_width > 2200 - reached_x
    /\ Cardinality(PastesOfWord) = 2
    /\ Len(canvas) = 3

\* No glyph was obtained: no folder, no image variant in it, or None from
\* process_letter_contour.
NoGlyphObtained(look) ==
    \/ look.dir \in { "missing", "novariants" }
    \/ look.dir = "variants" /\ look.file \in { "unreadable", "nocontours" }

C2_OneBlankItem ==
    /\ pc \in { "measure", "draw" } =>
          /\ Len(word_items) = ci
          /\ word_total_width = SumWidths(word_items, ci)
    /\ (pc \in { "measure", "draw" } /\ ci > 0 /\ NoGlyphObtained(last_lookup)) =>
          /\ word_items[ci].img.kind = "None"
          /\ word_items[ci].width = 25

C2_BlankDrawStep ==
    (pc = "draw" /\ di' = di + 1 /\ word_items[di + 1].img.kind = "None") =>
        /\ curr_x' = curr_x + 25
        /\ canvas' = canvas

\* C2: a character for which no glyph is obtained contributes exactly one
\* item (None, fallback_width), fallback_width = int(std_size * 0.5) = 25,
\* adds 25 to the word's total width, and when drawn moves curr_x by 25 and
\* pastes nothing.
C2_FallbackItem == [](C2_OneBlankItem) /\ [][C2_BlankDrawStep]_vars

\* An unreadable variant's placeholder drawn after a glyph: the cursor stands
\* 25 past the glyph's item and only the glyph is on the canvas.
C2_Witness ==
    /\ pc = "draw"
    /\ di = 2
    /\ Len(word_items) = 2
    /\ word_items[1].img.kind = "glyph"
    /\ word_items[2].img.kind = "None"
    /\ last_lookup.file = "unreadable"
    /\ curr_x = reached_x + word_items[1].width + 25
    /\ Len(canvas) = 1

C6_Step ==
    /\ curr_y' >= curr_y
    /\ curr_y' # curr_y =>
          /\ curr_y' = curr_y + 65
          /\ curr_x' = 200
          /\ (pc = "measure" /\ pc' = "draw") \/ pc = "eol"
    /\ pc = "eol" => curr_y' = curr_y + 65 /\ curr_x' = 200
    /\ li' # li => li' = li + 1 /\ pc = "eol"
    /\ curr_y' = curr_y =>
          \/ curr_x' = curr_x
          \/ pc = "draw" /\ di < Len(word_items)
               /\ curr_x' = curr_x + word_items[di + 1].width
               /\ curr_x' > curr_x
          \/ pc = "draw" /\ di = Len(word_items) /\ curr_x' = curr_x + 20

\* C6: curr_y never decreases; it changes only at a wrap or at the end of a
\* line, by line_height, with curr_x back at start_x; every line, an empty one
\* too, ends with one such step; between those steps curr_x only grows, by an
\* item's width or by the inter-word space.
C6_CursorMoves == [][C6_Step]_vars

\* After an empty first line and a wrap on the second: two steps down.
C6_Witness ==
    /\ li = 2
    /\ lines[1] = << >>
    /\ pc = "draw"
    /\ di >= 1
    /\ line_y = 200 + 65
    /\ curr_y = 200 + 2 * 65

RECURSIVE SumPlaced(_)
\* The first n words placed on the line, each with its inter-word space.
SumPlaced(n) ==
    IF n = 0 THEN 0 ELSE SumPlaced(n - 1) + placed_widths[n] + 20

\* Every word placed so far on the line fits behind the ones before it.
PlacedWordsFit ==
    \A k \in DOMAIN placed_widths :
        200 + SumPlaced(k - 1) + placed_widths[k] <= 2200


\* C7: while a line is laid out whose words all fit, start_x + (earlier words
\* and their spaces) + the word <= max_x, no wrap occurs: curr_y stays what it
\* was when the line began, up to the end-of-line step.
C7_FittingLineNeverWraps ==
    (pc \in { "measure", "draw", "eol" } /\ PlacedWordsFit) => curr_y = line_y

\* The end of a line of two fitting words, both drawn, on the second line.
C7_Witness ==
    /\ pc = "eol"
    /\ li = 2
    /\ Len(placed_widths) = 2
    /\ PlacedWordsFit
    /\ Len(canvas) = 2
    /\ canvas[1].y = canvas[2].y
    /\ canvas[1].line = 2

\* The place in the text of the character a paste was made for.
TextBefore(p, q) ==
    \/ p.line < q.line
    \/ p.line = q.line /\ p.word < q.word
    \/ p.line = q.line /\ p.word = q.word /\ p.char < q.char

\* C9: pastes are made in text order and in reading order: of two characters
\* that obtain a glyph the earlier one is pasted first, higher up, or on the
\* same row and further left.
C9_PastesInReadingOrder ==
    \A j, k \in DOMAIN canvas :
        (j < k <=> TextBefore(canvas[j], canvas[k]))
        /\ (j < k =>
               \/ canvas[j].y < canvas[k].y
               \/ canvas[j].y = canvas[k].y /\ canvas[j].x < canvas[k].x)

\* Three pastes: two on one row, the third on a later row.
C9_Witness ==
    /\ Len(canvas) = 3
    /\ canvas[1].y = canvas[2].y
    /\ canvas[1].x < canvas[2].x
    /\ canvas[2].y < canvas[3].y
    /\ canvas[3].x < canvas[2].x

\* C10: every item of a word no wider than max_x - start_x is drawn with
\* start_x <= curr_x and curr_x + its width <= max_x, whatever came before.
C10_ItemsInsideMargins ==
    (pc = "draw" /\ di < Len(word_items) /\ word_total_width <= 2200 - 200) =>
        /\ 200 <= curr_x
        /\ curr_x + word_items[di + 1].width <= 2200

\* The last item of a word that was reached with the cursor already past
\* max_x (the space after the word before) and wrapped.
C10_Witness ==
    /\ pc = "draw"
    /\ reached_x > 2200
    /\ Len(word_items) >= 1
    /\ di = Len(word_items) - 1
    /\ word_total_width <= 2200 - 200
    /\ curr_y = reached_y + 65

\* C8, as stated: no character's failure aborts the page: every call of
\* process_letter_contour returns None or a glyph of height std_size and
\* width >= 1, and generate() goes on to the end of the text.
C8_NoCharacterAborts ==
    /\ pc # "raised"
    /\ \A k \in DOMAIN word_items :
          word_items[k].img.kind = "glyph" =>
              word_items[k].img.height = 50 /\ word_items[k].img.width >= 1

====
